---- MODULE Spec2Model ----
(***************************************************************************)
(* A model of collector/collector.go of frr_exporter: the Exporters type   *)
(* (a prometheus.Collector) that runs every registered Collector in its    *)
(* own goroutine on each Collect call, gathers their failure signals on a  *)
(* buffered channel, and derives frr_up and frr_scrapes_total.             *)
(*                                                                         *)
(* A caller is a goroutine of the serving layer that calls Describe and    *)
(* Collect; every Collect call gets its own sink channel ch, its own errCh *)
(* and its own WaitGroup.  The sink's consumer is assumed to keep          *)
(* receiving, so a send on ch completes; what the consumer has received is *)
(* kept as a bag, since the order across goroutines is the scheduler's.    *)
(***************************************************************************)
EXTENDS Naturals, Integers, Sequences, FiniteSets, Bags, TLC

\* ------------------------------------------------------------------ bounds
\* At most this many Collectors in one Exporters value.
MaxColl == 2
\* A CollectErrors() result holds at most this many errors.
MaxErrs == 2
\* A PromCollector.Collect call writes at most this many samples.
MaxDomain == 1
\* At most this many Collect calls are made in one run of the process.
MaxCalls == 2

\* make(chan int, 1024)
ErrChCap == 1024

\* const namespace = "frr"
namespace == "frr"

Callers == {"c1", "c2"}
Exporters == {"e1", "e2"}
CollectorNames == <<"bgp", "ospf", "bfd", "vrrp">>

\* ------------------------------------------------------------- descriptors
\* type Collector struct: three interface values, each of which may be nil.
\* CLIHelper.Name() is the only part of CLIHelper that Collect uses.
Collector(name, prom, errs) ==
    [Name |-> name, PromCollector |-> prom, Errors |-> errs]

\* The Collector values a caller may hand to NewExporter: any name, and any
\* of the two capabilities present or nil.
AnyCollector ==
    { Collector(CollectorNames[i], p, r) :
        i \in 1..MaxColl, p \in BOOLEAN, r \in BOOLEAN }

\* Every []Collector of at most MaxColl elements.
AnyCollectors ==
    UNION { [1..n -> AnyCollector] : n \in 0..MaxColl }

\* A descriptor list as section 3 of the specification describes it: each
\* descriptor has both capabilities and a name of its own.
WellFormed(cs) ==
    /\ \A i \in 1..Len(cs) : cs[i].PromCollector /\ cs[i].Errors
    /\ \A i, j \in 1..Len(cs) : cs[i].Name = cs[j].Name => i = j

\* The well-formed lists, one per length (the names are interchangeable).
Registered(n) ==
    [i \in 1..n |-> Collector(CollectorNames[i], TRUE, TRUE)]

RegisteredLists == { Registered(n) : n \in 0..MaxColl }

\* The values CollectErrors() may return: only the length is ever read.
ErrorSeqs == UNION { [1..n -> {"scrape failed"}] : n \in 0..MaxErrs }

\* ------------------------------------------------------------------ metrics
frrScrapesTotal == namespace \o "_scrapes_total"
frrScrapeErrTotal == namespace \o "_scrape_errors_total"
frrScrapeDuration == namespace \o "_scrape_duration_seconds"
frrCollectorUp == namespace \o "_collector_up"
frrUp == namespace \o "_up"

\* prometheus.MustNewConstMetric(desc, valueType, value, labelValues...).
\* The collector label is "" for a metric without labels.
MustNewConstMetric(desc, value, label) ==
    [desc |-> desc, collector |-> label, value |-> value]

\* A sample written by a collector's own PromCollector.Collect: the k-th of
\* the call.
DomainMetric(name, k) ==
    [desc |-> "domain", collector |-> name, value |-> k]

\* ch <- m, the consumer receiving.
Send(bag, m) == bag (+) SetToBag({m})

\* -------------------------------------------------------------------- state
VARIABLES
    frrTotalScrapeCount,  \* var frrTotalScrapeCount = 0.0
    frrTotalErrorCount,   \* var frrTotalErrorCount = 0
    exporters,            \* the Exporters values NewExporter has returned
    caller,               \* each caller's position in Describe/Collect and Collect's locals
    task,                 \* the runCollector goroutines of each caller's Collect call
    sink,                 \* what the consumer of each call's ch has received
    descs,                \* what the consumer of Describe's ch has received
    calls                 \* the number of Collect calls begun so far

vars == <<frrTotalScrapeCount, frrTotalErrorCount, exporters, caller, task,
          sink, descs, calls>>

NoExporter == [made |-> FALSE, Collectors |-> <<>>]

IdleCaller ==
    [pc |-> "idle", e |-> "e1", k |-> 0, load |-> 0, i |-> 1,
     errCh |-> <<>>, closed |-> FALSE, wg |-> 0, errCount |-> 0, frrState |-> 0]

Init ==
    /\ frrTotalScrapeCount = 0
    /\ frrTotalErrorCount = 0
    /\ exporters = [e \in Exporters |-> NoExporter]
    /\ caller = [c \in Callers |-> IdleCaller]
    /\ task = [c \in Callers |-> <<>>]
    /\ sink = [c \in Callers |-> EmptyBag]
    /\ descs = [c \in Callers |-> <<>>]
    /\ calls = 0

\* The Collectors of the Exporters value caller c is running Collect on.
CollectorsOf(c) == exporters[caller[c].e].Collectors

\* An unrecovered panic in any goroutine ends the process: every caller is
\* gone and so is every runCollector goroutine.
PanickedCallers == [c \in Callers |-> [IdleCaller EXCEPT !.pc = "panic"]]

NoTasks == [c \in Callers |-> <<>>]

Crashed == \E c \in Callers : caller[c].pc = "panic"

\* Caller c is between calls.
Free(c) == caller[c].pc \in {"idle", "described", "returned"}

\* -------------------------------------------------------------- NewExporter
\* A bug: the scrape counter owned by the Exporters value and zeroed by its
\* constructor.
NewExporterZeroing(c, e, cs) ==
    /\ Free(c)
    /\ ~exporters[e].made
    /\ exporters' = [exporters EXCEPT ![e] = [made |-> TRUE, Collectors |-> cs]]
    /\ frrTotalScrapeCount' = 0
    /\ UNCHANGED <<frrTotalErrorCount, caller, task, sink, descs, calls>>

\* func NewExporter(collectors []Collector) *Exporters: stores the slice as it
\* is given.
NewExporter(c, e, cs) ==
    /\ Free(c)
    /\ ~exporters[e].made
    /\ exporters' = [exporters EXCEPT ![e] = [made |-> TRUE, Collectors |-> cs]]
    /\ UNCHANGED <<frrTotalScrapeCount, frrTotalErrorCount, caller, task, sink,
                   descs, calls>>

\* ----------------------------------------------------------------- Describe
\* What collector.PromCollector.Describe(ch) sends: the collector's own desc.
DomainDesc(name) == namespace \o "_" \o name

RECURSIVE DescribeCollectors(_)
DescribeCollectors(cs) ==
    IF cs = <<>> THEN <<>>
    ELSE <<DomainDesc(Head(cs).Name)>> \o DescribeCollectors(Tail(cs))

\* The five descs of lines 62-66, then each collector's in slice order.
DescribeOutput(cs) ==
    <<frrScrapesTotal, frrScrapeErrTotal, frrUp, frrScrapeDuration, frrCollectorUp>>
        \o DescribeCollectors(cs)

\* func (e *Exporters) Describe(ch): no state of the package is written.  A
\* collector whose PromCollector is nil panics the call at line 68.
Describe(c, e) ==
    /\ Free(c)
    /\ exporters[e].made
    /\ LET cs == exporters[e].Collectors
       IN IF \A i \in 1..Len(cs) : cs[i].PromCollector
          THEN /\ caller' = [caller EXCEPT ![c] =
                      [IdleCaller EXCEPT !.pc = "described", !.e = e]]
               /\ descs' = [descs EXCEPT ![c] = DescribeOutput(cs)]
               /\ task' = [task EXCEPT ![c] = <<>>]
          ELSE /\ caller' = PanickedCallers
               /\ descs' = [descs EXCEPT ![c] = <<>>]
               /\ task' = NoTasks
    /\ sink' = [sink EXCEPT ![c] = EmptyBag]
    /\ UNCHANGED <<frrTotalScrapeCount, frrTotalErrorCount, exporters, calls>>

\* ------------------------------------------------------------------ Collect
\* A caller enters Collect on exporter e with a fresh sink channel.
CollectCall(c, e) ==
    /\ Free(c)
    /\ exporters[e].made
    /\ calls < MaxCalls
    /\ calls' = calls + 1
    /\ caller' = [caller EXCEPT ![c] =
            [IdleCaller EXCEPT !.pc = "load", !.e = e, !.k = calls + 1]]
    /\ task' = [task EXCEPT ![c] = <<>>]
    /\ sink' = [sink EXCEPT ![c] = EmptyBag]
    /\ descs' = [descs EXCEPT ![c] = <<>>]
    /\ UNCHANGED <<frrTotalScrapeCount, frrTotalErrorCount, exporters>>

\* frrTotalScrapeCount++ is a plain read-modify-write of a package variable:
\* the read ...
IncLoad(c) ==
    /\ caller[c].pc = "load"
    /\ caller' = [caller EXCEPT ![c].load = frrTotalScrapeCount, ![c].pc = "store"]
    /\ UNCHANGED <<frrTotalScrapeCount, frrTotalErrorCount, exporters, task, sink,
                   descs, calls>>

\* A bug: the value is written back as it was read.
IncrementedLost(x) == x

\* The value frrTotalScrapeCount++ writes back.
Incremented(x) == x + 1

\* ... and the write.
IncStore(c) ==
    /\ caller[c].pc = "store"
    /\ frrTotalScrapeCount' = Incremented(caller[c].load)
    /\ caller' = [caller EXCEPT ![c].pc = "scrapes"]
    /\ UNCHANGED <<frrTotalErrorCount, exporters, task, sink, descs, calls>>

\* Line 75 reads the package variable again and sends the sample; line 77-78
\* make errCh and wg.
EmitScrapes(c) ==
    /\ caller[c].pc = "scrapes"
    /\ sink' = [sink EXCEPT ![c] =
            Send(@, MustNewConstMetric(frrScrapesTotal, frrTotalScrapeCount, ""))]
    /\ caller' = [caller EXCEPT ![c].pc = "spawn", ![c].i = 1,
                                ![c].errCh = <<>>, ![c].closed = FALSE, ![c].wg = 0]
    /\ UNCHANGED <<frrTotalScrapeCount, frrTotalErrorCount, exporters, task,
                   descs, calls>>

\* A goroutine as `go runCollector(ch, errCh, collector, wg)` starts it: the
\* collector is copied from the slice.
NewTask(collector) ==
    [pc |-> "start", collector |-> collector, sent |-> 0, errors |-> <<>>]

\* A bug: runCollector called without `go`, so that the loop moves on only
\* when the call has returned.
SpawnInline(c) ==
    /\ caller[c].pc = "spawn"
    /\ caller[c].i <= Len(exporters[caller[c].e].Collectors)
    /\ \A j \in 1..Len(task[c]) : task[c][j].pc = "done"
    /\ task' = [task EXCEPT ![c] =
            Append(@, [pc |-> "start",
                       collector |-> exporters[caller[c].e].Collectors[caller[c].i],
                       sent |-> 0, errors |-> <<>>])]
    /\ caller' = [caller EXCEPT ![c].wg = @ + 1, ![c].i = @ + 1]
    /\ UNCHANGED <<frrTotalScrapeCount, frrTotalErrorCount, exporters, sink,
                   descs, calls>>

\* One iteration of the loop of lines 79-82: wg.Add(1); go runCollector(...).
Spawn(c) ==
    /\ caller[c].pc = "spawn"
    /\ caller[c].i <= Len(CollectorsOf(c))
    /\ task' = [task EXCEPT ![c] = Append(@, NewTask(CollectorsOf(c)[caller[c].i]))]
    /\ caller' = [caller EXCEPT ![c].wg = @ + 1, ![c].i = @ + 1]
    /\ UNCHANGED <<frrTotalScrapeCount, frrTotalErrorCount, exporters, sink,
                   descs, calls>>

\* A bug: Collect does not wait for its goroutines.
WaitReturnsAtOnce(c) == TRUE

\* wg.Wait() returns when the WaitGroup's counter is zero.
WaitReturns(c) == caller[c].wg = 0

\* The loop is over and wg.Wait() returns.
Wait(c) ==
    /\ caller[c].pc = "spawn"
    /\ caller[c].i > Len(CollectorsOf(c))
    /\ WaitReturns(c)
    /\ caller' = [caller EXCEPT ![c].pc = "close"]
    /\ UNCHANGED <<frrTotalScrapeCount, frrTotalErrorCount, exporters, task, sink,
                   descs, calls>>

\* close(errCh)
CloseErrCh(c) ==
    /\ caller[c].pc = "close"
    /\ caller' = [caller EXCEPT ![c].closed = TRUE, ![c].pc = "drain"]
    /\ UNCHANGED <<frrTotalScrapeCount, frrTotalErrorCount, exporters, task, sink,
                   descs, calls>>

\* A bug: processErrors returns after its first receive.
processErrorsOnce(buf) == IF buf = <<>> THEN 0 ELSE 1

\* A bug: the receive that reports !more is counted as well.
processErrorsCountingClose(buf, errors) == errors + Len(buf) + 1

\* func processErrors(errCh chan int) int, on a closed channel holding buf:
\* one receive per turn of the loop, until the receive reports !more.
RECURSIVE processErrorsFrom(_, _)
processErrorsFrom(buf, errors) ==
    IF buf = <<>> THEN errors
    ELSE processErrorsFrom(Tail(buf), errors + 1)

processErrors(buf) == processErrorsFrom(buf, 0)

\* A bug: the failures are added to the package's error count, and the
\* running total is what line 91 compares.
DrainAccumulating(c) ==
    /\ caller[c].pc = "drain"
    /\ caller[c].closed
    /\ frrTotalErrorCount' = frrTotalErrorCount + Len(caller[c].errCh)
    /\ caller' = [caller EXCEPT ![c].errCount = frrTotalErrorCount + Len(caller[c].errCh),
                                ![c].errCh = <<>>, ![c].pc = "state"]
    /\ UNCHANGED <<frrTotalScrapeCount, exporters, task, sink, descs, calls>>

\* errCount := processErrors(errCh).  The receive of an open, empty channel
\* blocks, so the call returns only once errCh is closed.
Drain(c) ==
    /\ caller[c].pc = "drain"
    /\ caller[c].closed
    /\ caller' = [caller EXCEPT ![c].errCount = processErrors(caller[c].errCh),
                                ![c].errCh = <<>>, ![c].pc = "state"]
    /\ UNCHANGED <<frrTotalScrapeCount, frrTotalErrorCount, exporters, task, sink,
                   descs, calls>>

\* A bug: the comparison of line 91 written with <=.
FrrStateOrEqual(errCount, n) == IF errCount <= n THEN 1 ELSE 0

\* A bug: the comparison of line 91 off by one.
FrrStateOffByOne(errCount, n) == IF errCount + 1 < n THEN 1 ELSE 0

\* Lines 90-93: frrState is 1 when errCount < len(e.Collectors), else 0.
FrrState(errCount, n) == IF errCount < n THEN 1 ELSE 0

\* A bug: the call's failures are added to frrTotalErrorCount and sent as
\* frr_scrape_errors_total.
EmitUpWithErrTotal(c) ==
    /\ caller[c].pc = "state"
    /\ frrTotalErrorCount' = frrTotalErrorCount + caller[c].errCount
    /\ sink' = [sink EXCEPT ![c] =
            @ (+) SetToBag({[desc |-> frrScrapeErrTotal, collector |-> "",
                             value |-> frrTotalErrorCount + caller[c].errCount]})
              (+) SetToBag({[desc |-> frrUp, collector |-> "",
                             value |-> IF caller[c].errCount <
                                          Len(exporters[caller[c].e].Collectors)
                                       THEN 1 ELSE 0]})]
    /\ caller' = [caller EXCEPT ![c].pc = "returned"]
    /\ UNCHANGED <<frrTotalScrapeCount, exporters, task, descs, calls>>

\* Lines 90-94, and Collect returns.
EmitUp(c) ==
    /\ caller[c].pc = "state"
    /\ LET frrState == FrrState(caller[c].errCount, Len(CollectorsOf(c)))
       IN /\ sink' = [sink EXCEPT ![c] = Send(@, MustNewConstMetric(frrUp, frrState, ""))]
          /\ caller' = [caller EXCEPT ![c].frrState = frrState, ![c].pc = "returned"]
    /\ UNCHANGED <<frrTotalScrapeCount, frrTotalErrorCount, exporters, task,
                   descs, calls>>

\* ------------------------------------------------------------- runCollector
\* The shape of an update of goroutine i of caller c's call.
SetTask(c, i, t) == [task EXCEPT ![c][i] = t]

\* A bug: the frr_collector_up sample sent ahead of the production call.
RunStartEmitsUp(c, i) ==
    /\ task[c][i].pc = "start"
    /\ sink' = [sink EXCEPT ![c] =
            @ (+) SetToBag({[desc |-> frrCollectorUp,
                             collector |-> task[c][i].collector.Name, value |-> 1]})]
    /\ task' = [task EXCEPT ![c][i] = [task[c][i] EXCEPT !.pc = "produce"]]
    /\ UNCHANGED <<frrTotalScrapeCount, frrTotalErrorCount, exporters, caller,
                   descs, calls>>

\* Lines 109-112: defer wg.Done(), startTime, and the call of
\* collector.PromCollector.Collect(ch), which panics on a nil PromCollector.
RunStart(c, i) ==
    /\ task[c][i].pc = "start"
    /\ IF task[c][i].collector.PromCollector
       THEN /\ task' = SetTask(c, i, [task[c][i] EXCEPT !.pc = "produce"])
            /\ UNCHANGED caller
       ELSE /\ task' = NoTasks
            /\ caller' = PanickedCallers
    /\ UNCHANGED <<frrTotalScrapeCount, frrTotalErrorCount, exporters, sink,
                   descs, calls>>

\* A bug: a sink written without synchronisation, where a sample written
\* while another goroutine is writing too is lost.
ProduceSampleLossy(c, i) ==
    /\ task[c][i].pc = "produce"
    /\ task[c][i].sent < MaxDomain
    /\ sink' = [sink EXCEPT ![c] =
            IF \E j \in 1..Len(task[c]) : j # i /\ task[c][j].pc = "produce"
            THEN @
            ELSE @ (+) SetToBag({[desc |-> "domain",
                                  collector |-> task[c][i].collector.Name,
                                  value |-> task[c][i].sent + 1]})]
    /\ task' = [task EXCEPT ![c][i] = [task[c][i] EXCEPT !.sent = @ + 1]]
    /\ UNCHANGED <<frrTotalScrapeCount, frrTotalErrorCount, exporters, caller,
                   descs, calls>>

\* Inside PromCollector.Collect(ch): the collector writes one more sample.
ProduceSample(c, i) ==
    /\ task[c][i].pc = "produce"
    /\ task[c][i].sent < MaxDomain
    /\ sink' = [sink EXCEPT ![c] =
            Send(@, DomainMetric(task[c][i].collector.Name, task[c][i].sent + 1))]
    /\ task' = SetTask(c, i, [task[c][i] EXCEPT !.sent = @ + 1])
    /\ UNCHANGED <<frrTotalScrapeCount, frrTotalErrorCount, exporters, caller,
                   descs, calls>>

\* A bug: a single error is let through.
FailedTwice(errors) == Len(errors) > 1

\* Line 116: len(errors) > 0.
Failed(errors) == Len(errors) > 0

\* A bug: a collector that reported errors is run again within the call.
ProduceReturnRetrying(c, i, errors) ==
    /\ task[c][i].pc = "produce"
    /\ task[c][i].collector.Errors
    /\ task' = [task EXCEPT ![c][i] =
            [task[c][i] EXCEPT !.errors = errors,
                               !.pc = IF errors = <<>> THEN "up1" ELSE "start"]]
    /\ UNCHANGED <<frrTotalScrapeCount, frrTotalErrorCount, exporters, caller, sink,
                   descs, calls>>

\* PromCollector.Collect returns and line 114 asks collector.Errors for the
\* errors of the call (a nil Errors panics); line 116 takes its branch.
ProduceReturn(c, i, errors) ==
    /\ task[c][i].pc = "produce"
    /\ IF task[c][i].collector.Errors
       THEN /\ task' = SetTask(c, i, [task[c][i] EXCEPT !.errors = errors,
                          !.pc = IF Failed(errors) THEN "signal" ELSE "up1"])
            /\ UNCHANGED caller
       ELSE /\ task' = NoTasks
            /\ caller' = PanickedCallers
    /\ UNCHANGED <<frrTotalScrapeCount, frrTotalErrorCount, exporters, sink,
                   descs, calls>>

\* A bug: errCh made without a buffer, so that the send needs processErrors
\* to be receiving.
SignalUnbuffered(c, i) ==
    /\ task[c][i].pc = "signal"
    /\ caller[c].pc = "drain"
    /\ ~caller[c].closed
    /\ caller' = [caller EXCEPT ![c].errCount = @ + 1]
    /\ task' = [task EXCEPT ![c][i] = [task[c][i] EXCEPT !.pc = "up0"]]
    /\ UNCHANGED <<frrTotalScrapeCount, frrTotalErrorCount, exporters, sink,
                   descs, calls>>

\* Line 117: errCh <- 1.  The send waits while the buffer is full, and panics
\* on a closed channel.
Signal(c, i) ==
    /\ task[c][i].pc = "signal"
    /\ caller[c].closed \/ Len(caller[c].errCh) < ErrChCap
    /\ IF caller[c].closed
       THEN /\ task' = NoTasks
            /\ caller' = PanickedCallers
       ELSE /\ caller' = [caller EXCEPT ![c].errCh = Append(@, 1)]
            /\ task' = SetTask(c, i, [task[c][i] EXCEPT !.pc = "up0"])
    /\ UNCHANGED <<frrTotalScrapeCount, frrTotalErrorCount, exporters, sink,
                   descs, calls>>

\* Line 118 (with the log lines 119-121) or line 123: the frr_collector_up
\* sample of the branch taken.
EmitCollectorUp(c, i) ==
    /\ task[c][i].pc \in {"up0", "up1"}
    /\ sink' = [sink EXCEPT ![c] =
            Send(@, MustNewConstMetric(frrCollectorUp,
                                       IF task[c][i].pc = "up0" THEN 0 ELSE 1,
                                       task[c][i].collector.Name))]
    /\ task' = SetTask(c, i, [task[c][i] EXCEPT !.pc = "duration"])
    /\ UNCHANGED <<frrTotalScrapeCount, frrTotalErrorCount, exporters, caller,
                   descs, calls>>

\* A bug: the duration sample sent only from the branch without errors.
EmitDurationIfUp(c, i) ==
    /\ task[c][i].pc = "duration"
    /\ sink' = [sink EXCEPT ![c] =
            IF task[c][i].errors = <<>>
            THEN @ (+) SetToBag({[desc |-> frrScrapeDuration,
                                  collector |-> task[c][i].collector.Name, value |-> 0]})
            ELSE @]
    /\ task' = [task EXCEPT ![c][i] = [task[c][i] EXCEPT !.pc = "deferred"]]
    /\ UNCHANGED <<frrTotalScrapeCount, frrTotalErrorCount, exporters, caller,
                   descs, calls>>

\* Line 125: the frr_scrape_duration_seconds sample.  The elapsed time is not
\* modelled: its value is written as 0.
EmitDuration(c, i) ==
    /\ task[c][i].pc = "duration"
    /\ sink' = [sink EXCEPT ![c] =
            Send(@, MustNewConstMetric(frrScrapeDuration, 0, task[c][i].collector.Name))]
    /\ task' = SetTask(c, i, [task[c][i] EXCEPT !.pc = "deferred"])
    /\ UNCHANGED <<frrTotalScrapeCount, frrTotalErrorCount, exporters, caller,
                   descs, calls>>

\* A bug: runCollector returns without wg.Done().
WgDoneForgotten(c, i) ==
    /\ task[c][i].pc = "deferred"
    /\ task' = [task EXCEPT ![c][i] = [task[c][i] EXCEPT !.pc = "done"]]
    /\ UNCHANGED <<frrTotalScrapeCount, frrTotalErrorCount, exporters, caller, sink,
                   descs, calls>>

\* The deferred wg.Done() of line 109, as runCollector returns.
WgDone(c, i) ==
    /\ task[c][i].pc = "deferred"
    /\ task' = SetTask(c, i, [task[c][i] EXCEPT !.pc = "done"])
    /\ caller' = [caller EXCEPT ![c].wg = @ - 1]
    /\ UNCHANGED <<frrTotalScrapeCount, frrTotalErrorCount, exporters, sink,
                   descs, calls>>

\* Inside PromCollector.Collect(ch): the collector blocks for good (a command
\* that never answers).  Nothing in runCollector or Collect bounds the call.
ProduceHang(c, i) ==
    /\ task[c][i].pc = "produce"
    /\ task' = SetTask(c, i, [task[c][i] EXCEPT !.pc = "hung"])
    /\ UNCHANGED <<frrTotalScrapeCount, frrTotalErrorCount, exporters, caller, sink,
                   descs, calls>>

\* ------------------------------------------------------------ specifications
\* A step of caller c's Collect call in progress: of Collect itself or of one
\* of its runCollector goroutines.
CollectStep(c) ==
    \/ IncLoad(c)
    \/ IncStore(c)
    \/ EmitScrapes(c)
    \/ Spawn(c)
    \/ Wait(c)
    \/ CloseErrCh(c)
    \/ Drain(c)
    \/ EmitUp(c)
    \/ \E i \in 1..Len(task[c]) : RunStart(c, i)
    \/ \E i \in 1..Len(task[c]) : ProduceSample(c, i)
    \/ \E i \in 1..Len(task[c]), errors \in ErrorSeqs : ProduceReturn(c, i, errors)
    \/ \E i \in 1..Len(task[c]) : Signal(c, i)
    \/ \E i \in 1..Len(task[c]) : EmitCollectorUp(c, i)
    \/ \E i \in 1..Len(task[c]) : EmitDuration(c, i)
    \/ \E i \in 1..Len(task[c]) : WgDone(c, i)

\* The serving layer's scraping goroutine, when scrapes are serialized.
Scraper == {"c1"}

\* The only exporter of the runs that need no second one.
OneExporter == {"e1"}

\* The well-formed lists of the runs with overlapping calls.
ShortLists == { Registered(n) : n \in 0..1 }

\* One scraping goroutine: the Describe and Collect calls come one after the
\* other, on an exporter built from a well-formed descriptor list.
Next ==
    \E c \in Scraper :
        \/ \E e \in OneExporter, cs \in RegisteredLists : NewExporter(c, e, cs)
        \/ \E e \in OneExporter : Describe(c, e)
        \/ \E e \in OneExporter : CollectCall(c, e)
        \/ CollectStep(c)

Spec == Init /\ [][Next]_vars

\* Two scraping goroutines, whose calls may overlap.
NextConc ==
    \E c \in Callers :
        \/ \E e \in OneExporter, cs \in ShortLists : NewExporter(c, e, cs)
        \/ \E e \in OneExporter : Describe(c, e)
        \/ \E e \in OneExporter : CollectCall(c, e)
        \/ CollectStep(c)

SpecConc == Init /\ [][NextConc]_vars

\* One scraping goroutine, and NewExporter given any []Collector.
NextReg ==
    \E c \in Scraper :
        \/ \E e \in OneExporter, cs \in AnyCollectors : NewExporter(c, e, cs)
        \/ \E e \in OneExporter : Describe(c, e)
        \/ \E e \in OneExporter : CollectCall(c, e)
        \/ CollectStep(c)

SpecReg == Init /\ [][NextReg]_vars

\* One scraping goroutine that makes a single Collect call, collectors whose
\* production call may never return, and a scheduler that keeps running a call
\* that has a step to take.
NextLive ==
    \E c \in Scraper :
        \/ \E e \in OneExporter, cs \in RegisteredLists : NewExporter(c, e, cs)
        \/ \E e \in OneExporter : Describe(c, e)
        \/ \E e \in OneExporter : calls = 0 /\ CollectCall(c, e)
        \/ CollectStep(c)
        \/ \E i \in 1..Len(task[c]) : ProduceHang(c, i)

SpecLive ==
    Init /\ [][NextLive]_vars /\ \A c \in Scraper : WF_vars(CollectStep(c))

\* One more collector than errCh has room for, each well-formed.
ManyCollectors ==
    [i \in 1..(ErrChCap + 1) |-> Collector("c" \o ToString(i), TRUE, TRUE)]

\* The schedule of the runs over ManyCollectors, one of those the Go
\* scheduler may choose: the goroutines run once the loop of lines 79-82 is
\* over, one after the other in slice order.  InTurn(c) holds the goroutines
\* that may have run already and the one whose turn it is.
InTurn(c) ==
    IF caller[c].i > Len(CollectorsOf(c))
    THEN { i \in 1..Len(task[c]) :
             IF i = 1 THEN TRUE ELSE task[c][i - 1].pc = "done" }
    ELSE {}

\* One scraping goroutine that makes a single Collect call, on an exporter
\* without collectors or over ManyCollectors, whose production calls write
\* nothing and report one error each.
NextCap ==
    \E c \in Scraper :
        \/ \E e \in OneExporter, cs \in {Registered(0), ManyCollectors} :
              NewExporter(c, e, cs)
        \/ \E e \in OneExporter : calls = 0 /\ CollectCall(c, e)
        \/ IncLoad(c)
        \/ IncStore(c)
        \/ EmitScrapes(c)
        \/ Spawn(c)
        \/ Wait(c)
        \/ CloseErrCh(c)
        \/ Drain(c)
        \/ EmitUp(c)
        \/ \E i \in InTurn(c) : RunStart(c, i)
        \/ \E i \in InTurn(c) : ProduceReturn(c, i, <<"scrape failed">>)
        \/ \E i \in InTurn(c) : Signal(c, i)
        \/ \E i \in InTurn(c) : EmitCollectorUp(c, i)
        \/ \E i \in InTurn(c) : EmitDuration(c, i)
        \/ \E i \in InTurn(c) : WgDone(c, i)

SpecCap == Init /\ [][NextCap]_vars

\* The callers make their Collect calls one at a time: c enters Collect when
\* no other caller is inside a call.
Serial(c) == \A d \in Callers \ {c} : Free(d)

\* What CollectErrors() returns in the runs that only read whether it is
\* empty.
NoneOrOne == {<<>>, <<"scrape failed">>}

\* Two scraping goroutines that take turns on one exporter, so that the
\* outcome of a call stays in view while the next call runs.  The production
\* calls write nothing.
NextTurns ==
    \E c \in Callers :
        \/ \E e \in OneExporter, cs \in RegisteredLists : NewExporter(c, e, cs)
        \/ \E e \in OneExporter : Serial(c) /\ CollectCall(c, e)
        \/ IncLoad(c)
        \/ IncStore(c)
        \/ EmitScrapes(c)
        \/ Spawn(c)
        \/ Wait(c)
        \/ CloseErrCh(c)
        \/ Drain(c)
        \/ EmitUp(c)
        \/ \E i \in 1..Len(task[c]) : RunStart(c, i)
        \/ \E i \in 1..Len(task[c]), errors \in NoneOrOne : ProduceReturn(c, i, errors)
        \/ \E i \in 1..Len(task[c]) : Signal(c, i)
        \/ \E i \in 1..Len(task[c]) : EmitCollectorUp(c, i)
        \/ \E i \in 1..Len(task[c]) : EmitDuration(c, i)
        \/ \E i \in 1..Len(task[c]) : WgDone(c, i)

SpecTurns == Init /\ [][NextTurns]_vars

\* Two scraping goroutines that take turns on two exporters of at most one
\* collector each, with Describe calls in between.  The production calls
\* write nothing.
NextTwo ==
    \E c \in Callers :
        \/ \E e \in Exporters, cs \in ShortLists : NewExporter(c, e, cs)
        \/ \E e \in Exporters : Describe(c, e)
        \/ \E e \in Exporters : Serial(c) /\ CollectCall(c, e)
        \/ IncLoad(c)
        \/ IncStore(c)
        \/ EmitScrapes(c)
        \/ Spawn(c)
        \/ Wait(c)
        \/ CloseErrCh(c)
        \/ Drain(c)
        \/ EmitUp(c)
        \/ \E i \in 1..Len(task[c]) : RunStart(c, i)
        \/ \E i \in 1..Len(task[c]), errors \in NoneOrOne : ProduceReturn(c, i, errors)
        \/ \E i \in 1..Len(task[c]) : Signal(c, i)
        \/ \E i \in 1..Len(task[c]) : EmitCollectorUp(c, i)
        \/ \E i \in 1..Len(task[c]) : EmitDuration(c, i)
        \/ \E i \in 1..Len(task[c]) : WgDone(c, i)

SpecTwo == Init /\ [][NextTwo]_vars

\* ------------------------------------------------------------------ readings
\* How many samples of metric desc with collector label name the consumer of
\* caller c's sink has received, whatever their values.
NumSamples(c, desc, name) ==
    LET S == { m \in BagToSet(sink[c]) : m.desc = desc /\ m.collector = name }
    IN BagCardinality([m \in S |-> sink[c][m]])

\* The values of the samples of metric desc with label name in c's sink.
ValuesOf(c, desc, name) ==
    { m.value : m \in { x \in BagToSet(sink[c]) : x.desc = desc /\ x.collector = name } }

\* Caller c's Collect call has returned.
Returned(c) == caller[c].pc = "returned"

\* Caller c is inside Collect.
InCollect(c) ==
    caller[c].pc \in {"load", "store", "scrapes", "spawn", "close", "drain", "state"}

\* Caller c's Collect call is past line 75.
ScrapesEmitted(c) ==
    caller[c].pc \in {"spawn", "close", "drain", "state", "returned"}

\* Goroutine i of caller c's call is past its frr_collector_up send.
UpEmitted(c, i) == task[c][i].pc \in {"duration", "deferred", "done"}

\* The goroutines of c's call whose CollectErrors result was not empty.
FailedTasks(c) ==
    { i \in 1..Len(task[c]) :
        /\ task[c][i].pc \in {"signal", "up0", "up1", "duration", "deferred", "done"}
        /\ Len(task[c][i].errors) > 0 }

\* -------------------------------------------------------------------- claims
\* C1: with the Collect calls made one after the other, the frr_scrapes_total
\* sample of the k-th call carries k (one such sample per call), and the
\* package counter is the number of calls whose increment has run: it goes
\* up by one per call, whatever the collectors report, and never comes back.
C1_ScrapeCountIsCallNumber ==
    \A c \in Scraper :
        /\ ScrapesEmitted(c) =>
              /\ NumSamples(c, frrScrapesTotal, "") = 1
              /\ ValuesOf(c, frrScrapesTotal, "") = {caller[c].k}
        /\ frrTotalScrapeCount =
              IF caller[c].pc \in {"load", "store"} THEN calls - 1 ELSE calls

\* The second call has returned, one of its collectors having failed, and
\* its frr_scrapes_total sample carries 2.
C1_Witness ==
    \E c \in Scraper :
        /\ Returned(c)
        /\ caller[c].k = 2
        /\ FailedTasks(c) # {}
        /\ ValuesOf(c, frrScrapesTotal, "") = {2}

\* C2: a returned Collect call over N collectors has sent one frr_up sample,
\* whose value is 1 exactly when fewer than N of its collectors reported a
\* non-empty error sequence, and 0 otherwise.
C2_UpIffSomeCollectorSucceeded ==
    \A c \in Scraper :
        Returned(c) =>
            /\ NumSamples(c, frrUp, "") = 1
            /\ ValuesOf(c, frrUp, "") =
                  {IF Cardinality(FailedTasks(c)) < Len(CollectorsOf(c)) THEN 1 ELSE 0}

\* A call over two collectors that both failed has returned with frr_up 0.
C2_Witness ==
    \E c \in Scraper :
        /\ Returned(c)
        /\ Len(CollectorsOf(c)) = 2
        /\ Cardinality(FailedTasks(c)) = 2
        /\ ValuesOf(c, frrUp, "") = {0}

\* C3, as the specification states it: a returned call none of whose
\* collectors reported an error has sent frr_up 1.  (Fails with no collector
\* registered.)
C3_Original ==
    \A c \in Scraper :
        (Returned(c) /\ FailedTasks(c) = {}) => ValuesOf(c, frrUp, "") = {1}

\* C3, amended: a returned call over at least one collector, none of which
\* reported an error, has sent frr_up 1.
C3_UpWhenNoCollectorFails ==
    \A c \in Scraper :
        (Returned(c) /\ Len(CollectorsOf(c)) >= 1 /\ FailedTasks(c) = {})
            => ValuesOf(c, frrUp, "") = {1}

\* A call over two collectors has returned, neither having reported an error.
C3_Witness ==
    \E c \in Scraper :
        /\ Returned(c)
        /\ Len(CollectorsOf(c)) = 2
        /\ FailedTasks(c) = {}
        /\ \A i \in 1..Len(task[c]) : task[c][i].pc = "done"

\* C4: a returned call on an exporter without collectors has sent exactly two
\* samples, frr_scrapes_total with the call's number and frr_up 0, and the
\* counter has gone up to that number.
C4_NoCollectors ==
    \A c \in Scraper :
        (Returned(c) /\ Len(CollectorsOf(c)) = 0) =>
            /\ sink[c] = SetToBag({MustNewConstMetric(frrScrapesTotal, caller[c].k, ""),
                                   MustNewConstMetric(frrUp, 0, "")})
            /\ frrTotalScrapeCount = caller[c].k

\* The second call on an exporter without collectors has returned.
C4_Witness ==
    \E c \in Scraper :
        /\ Returned(c)
        /\ Len(CollectorsOf(c)) = 0
        /\ caller[c].k = 2

\* C5: once a goroutine has sent its frr_collector_up sample, that sample is
\* the only one with its collector's name, and its value is 1 when the
\* CollectErrors result was empty and 0 when it held any number of errors.
C5_CollectorUpIffNoErrors ==
    \A c \in Scraper : \A i \in 1..Len(task[c]) :
        UpEmitted(c, i) =>
            ValuesOf(c, frrCollectorUp, task[c][i].collector.Name) =
                {IF task[c][i].errors = <<>> THEN 1 ELSE 0}

\* One collector reported one error and another two, and both have sent
\* frr_collector_up 0.
C5_Witness ==
    \E c \in Scraper : \E i, j \in 1..Len(task[c]) :
        /\ UpEmitted(c, i) /\ UpEmitted(c, j)
        /\ Len(task[c][i].errors) = 1
        /\ Len(task[c][j].errors) = 2
        /\ ValuesOf(c, frrCollectorUp, task[c][i].collector.Name) = {0}
        /\ ValuesOf(c, frrCollectorUp, task[c][j].collector.Name) = {0}

\* The metrics that carry a collector label.
PerCollector == {frrCollectorUp, frrScrapeDuration}

\* C6: at no point of a call has a collector more than one frr_collector_up or
\* frr_scrape_duration_seconds sample, and when the call has returned every
\* registered collector, failed or not, has exactly one of each under its
\* Name(), and no such sample carries any other label.
C6_OneUpAndOneDurationEach ==
    \A c \in Scraper : \A d \in PerCollector :
        /\ \A m \in BagToSet(sink[c]) :
              m.desc = d =>
                /\ NumSamples(c, d, m.collector) = 1
                /\ \E i \in 1..Len(task[c]) : m.collector = task[c][i].collector.Name
        /\ Returned(c) =>
              \A i \in 1..Len(CollectorsOf(c)) :
                  NumSamples(c, d, CollectorsOf(c)[i].Name) = 1

\* A call over two collectors has returned, one of them having failed.
C6_Witness ==
    \E c \in Scraper :
        /\ Returned(c)
        /\ Len(CollectorsOf(c)) = 2
        /\ Cardinality(FailedTasks(c)) = 1
        /\ NumSamples(c, frrScrapeDuration, CollectorsOf(c)[1].Name) = 1
        /\ NumSamples(c, frrScrapeDuration, CollectorsOf(c)[2].Name) = 1

\* Caller c's Collect call is past wg.Wait().
Joined(c) == caller[c].pc \in {"close", "drain", "state", "returned"}

\* C7: once wg.Wait() has returned, and so whenever frr_up has been sent or
\* Collect has returned, a goroutine has been started for every registered
\* collector and each has run to its end (production, error query,
\* frr_collector_up, frr_scrape_duration_seconds, wg.Done): none is left to
\* write to the sink.
C7_JoinBarrier ==
    \A c \in Scraper :
        (Joined(c) \/ NumSamples(c, frrUp, "") > 0) =>
            /\ Len(task[c]) = Len(CollectorsOf(c))
            /\ \A i \in 1..Len(task[c]) :
                  /\ task[c][i].pc = "done"
                  /\ NumSamples(c, frrCollectorUp, task[c][i].collector.Name) = 1
                  /\ NumSamples(c, frrScrapeDuration, task[c][i].collector.Name) = 1

\* wg.Wait() has just returned over two goroutines that are both done.
C7_Witness ==
    \E c \in Scraper :
        /\ caller[c].pc = "close"
        /\ Len(task[c]) = 2
        /\ \A i \in 1..Len(task[c]) : task[c][i].pc = "done"

\* The samples goroutine i of c's call has written from PromCollector.Collect.
DomainWritten(c, i) ==
    { DomainMetric(task[c][i].collector.Name, k) : k \in 1..task[c][i].sent }

C9_AtomicIncrement ==
    /\ (\A c \in Callers : Free(c)) => frrTotalScrapeCount = calls
    /\ \A c, d \in Callers :
          (c # d /\ ScrapesEmitted(c) /\ ScrapesEmitted(d)) =>
              ValuesOf(c, frrScrapesTotal, "") # ValuesOf(d, frrScrapesTotal, "")

\* C10, as the specification states it: every exporter NewExporter has
\* returned holds a well-formed list (each collector with both capabilities,
\* no name twice), and no call ever panics on a missing capability.  (Fails:
\* NewExporter checks nothing.)
C10_RegistrationFailsFast ==
    /\ \A e \in Exporters : exporters[e].made => WellFormed(exporters[e].Collectors)
    /\ ~Crashed

\* A production call of caller c's Collect call never returns.
Hung(c) == \E i \in 1..Len(task[c]) : task[c][i].pc = "hung"

DeliveredBy(c, i) ==
    DomainWritten(c, i) \cup
        { MustNewConstMetric(frrCollectorUp,
                             IF task[c][i].errors = <<>> THEN 1 ELSE 0,
                             task[c][i].collector.Name),
          MustNewConstMetric(frrScrapeDuration, 0, task[c][i].collector.Name) }

\* The sum of the numbers of domain samples the goroutines 1..n of c wrote.
RECURSIVE DomainTotal(_, _)
DomainTotal(c, n) == IF n = 0 THEN 0 ELSE task[c][n].sent + DomainTotal(c, n - 1)

\* C12: when a Collect call over N collectors has returned, the sink holds
\* every sample once and nothing else: the d_1 + ... + d_N domain samples the
\* production calls wrote (those of a failed collector too), N
\* frr_collector_up, N frr_scrape_duration_seconds, one frr_scrapes_total
\* and one frr_up, under every interleaving of the goroutines.
C12_EverySampleExactlyOnce ==
    \A c \in Scraper :
        Returned(c) =>
            /\ sink[c] = SetToBag(
                  UNION { DeliveredBy(c, i) : i \in 1..Len(task[c]) } \cup
                  { MustNewConstMetric(frrScrapesTotal, caller[c].k, ""),
                    MustNewConstMetric(frrUp,
                        IF Cardinality(FailedTasks(c)) < Len(CollectorsOf(c))
                        THEN 1 ELSE 0, "") })
            /\ BagCardinality(sink[c]) =
                  DomainTotal(c, Len(task[c])) + 2 * Len(CollectorsOf(c)) + 2

\* The first call over two collectors has returned: the first collector
\* wrote a sample and reported no error, the second wrote a sample and
\* reported two errors; the sink holds 2 + 4 + 2 samples and frr_up is 1.
C12_Witness ==
    \E c \in Scraper :
        /\ Returned(c)
        /\ caller[c].k = 1
        /\ Len(task[c]) = 2
        /\ task[c][1].sent = 1 /\ task[c][1].errors = <<>>
        /\ task[c][2].sent = 1 /\ Len(task[c][2].errors) = 2
        /\ BagCardinality(sink[c]) = 8
        /\ ValuesOf(c, frrUp, "") = {1}
        /\ ValuesOf(c, frrScrapesTotal, "") = {1}


\* C13, as the specification states it: whatever the number of registered
\* descriptors, errCh has room for one signal of each of them, and a goroutine
\* that is about to signal its failure finds room in errCh.
C13_SignalNeverBlocks ==
    \A c \in Callers :
        /\ caller[c].pc = "spawn" => Len(CollectorsOf(c)) <= ErrChCap
        /\ \A i \in 1..Len(task[c]) :
              task[c][i].pc = "signal" /\ ~caller[c].closed
                  => Len(caller[c].errCh) < ErrChCap


\* The frr_collector_up samples of value 0 in caller c's sink.
ZeroUpSamples(c) ==
    LET S == { m \in BagToSet(sink[c]) : m.desc = frrCollectorUp /\ m.value = 0 }
    IN BagCardinality([m \in S |-> sink[c][m]])

\* C14: processErrors runs on a closed errCh, so it returns; what it returns
\* is the number of collectors of this call whose CollectErrors result was
\* not empty, each signal counted once, which is also the number of
\* frr_collector_up samples of value 0 of the call; when errCh is closed it
\* holds one signal per failed collector and no goroutine has a signal left
\* to send.
C14_DrainCountsTheFailures ==
    \A c \in Scraper :
        /\ caller[c].pc = "drain" => caller[c].closed /\ ENABLED Drain(c)
        /\ caller[c].closed =>
              /\ \A i \in 1..Len(task[c]) : task[c][i].pc = "done"
              /\ caller[c].pc = "drain" =>
                    Len(caller[c].errCh) = Cardinality(FailedTasks(c))
        /\ caller[c].pc \in {"state", "returned"} =>
              /\ caller[c].errCount = Cardinality(FailedTasks(c))
              /\ caller[c].errCount = ZeroUpSamples(c)
              /\ caller[c].errCh = <<>>

\* The drain of a call with two collectors, both failed, has returned 2.
C14_Witness ==
    \E c \in Scraper :
        /\ caller[c].pc = "state"
        /\ Len(task[c]) = 2
        /\ caller[c].errCount = 2
        /\ ZeroUpSamples(c) = 2


\* The goroutines of c's call that have sent their failure signal.
Signalled(c) ==
    { i \in FailedTasks(c) : task[c][i].pc # "signal" }

\* C15: the order of one collector's steps shows in the sink.  While its
\* production call has not returned, a collector has no frr_collector_up and
\* no duration sample in the sink; its up sample is there only once its
\* errors have been asked for, with all the samples of its production call,
\* and, when the value is 0, with its signal already in errCh; its duration
\* sample is there only after its up sample.
C15_StepsInOrder ==
    \A c \in Scraper : \A i \in 1..Len(task[c]) :
        LET t == task[c][i]
            name == t.collector.Name
        IN /\ t.pc \in {"start", "produce", "signal", "up0", "up1"} =>
                 /\ NumSamples(c, frrCollectorUp, name) = 0
                 /\ NumSamples(c, frrScrapeDuration, name) = 0
           /\ t.pc \in {"signal", "up0"} <=> Failed(t.errors) /\ ~UpEmitted(c, i)
           /\ NumSamples(c, frrCollectorUp, name) > 0 =>
                 /\ UpEmitted(c, i)
                 /\ NumSamples(c, "domain", name) = t.sent
           /\ NumSamples(c, frrScrapeDuration, name) > 0 =>
                 /\ t.pc \in {"deferred", "done"}
                 /\ NumSamples(c, frrCollectorUp, name) = 1
           /\ caller[c].pc = "spawn" =>
                 Len(caller[c].errCh) = Cardinality(Signalled(c))

\* A failed collector has written its production sample, signalled and
\* sent its up sample of value 0, and has not sent its duration sample yet.
C15_Witness ==
    \E c \in Scraper : \E i \in 1..Len(task[c]) :
        /\ task[c][i].pc = "duration"
        /\ task[c][i].sent = MaxDomain
        /\ ValuesOf(c, frrCollectorUp, task[c][i].collector.Name) = {0}
        /\ NumSamples(c, frrScrapeDuration, task[c][i].collector.Name) = 0
        /\ Len(caller[c].errCh) = 1


\* The steps of runCollector in the order of its lines, the two branches of
\* line 116 side by side.
Stages ==
    <<{"start"}, {"produce"}, {"signal"}, {"up0", "up1"}, {"duration"},
      {"deferred"}, {"done"}>>

Stage(pc) == CHOOSE k \in 1..Len(Stages) : pc \in Stages[k]

\* C16: a Collect call starts one goroutine per registered collector, the
\* i-th for the i-th collector of the slice, and none once the loop is over;
\* within the call a goroutine only moves forward through runCollector, so
\* its production call and its CollectErrors call are made once and a failed
\* collector is not started again; the goroutines of a call are replaced
\* only when the caller enters Collect again.
C16_OneRunPerCollector ==
    /\ [](\A c \in Scraper :
            /\ Len(task[c]) <= Len(CollectorsOf(c))
            /\ \A i \in 1..Len(task[c]) : task[c][i].collector = CollectorsOf(c)[i]
            /\ caller[c].pc = "spawn" => Len(task[c]) = caller[c].i - 1
            /\ caller[c].pc \in {"close", "drain", "state", "returned"} =>
                  Len(task[c]) = Len(CollectorsOf(c)))
    /\ [][\A c \in Scraper :
            \/ /\ Len(task'[c]) >= Len(task[c])
               /\ Len(task'[c]) <= Len(task[c]) + 1
               /\ \A i \in 1..Len(task[c]) :
                     /\ Stage(task'[c][i].pc) >= Stage(task[c][i].pc)
                     /\ task'[c][i].collector = task[c][i].collector
                     /\ Stage(task[c][i].pc) > Stage("produce") =>
                           task'[c][i].errors = task[c][i].errors
               /\ Len(task'[c]) > Len(task[c]) =>
                     caller[c].pc = "spawn" /\ task'[c][Len(task'[c])].pc = "start"
            \/ /\ task'[c] = <<>>
               /\ caller'[c].pc \in {"load", "described"}
               /\ Free(c)]_vars

\* The second Collect call runs the first collector again: its production
\* call is in progress and the goroutine of the second collector is started.
C16_Witness ==
    \E c \in Scraper :
        /\ caller[c].k = 2
        /\ Len(task[c]) = 2
        /\ task[c][1].pc = "produce"
        /\ task[c][2].pc = "start"


\* C17: two Collect calls over the same collectors in which the same
\* collectors fail send the same frr_up value, however many calls were made
\* before and whatever failed in them; a call starts with errCount 0 and an
\* errCh that holds only the signals of its own goroutines, and the
\* package's error count stays 0.
C17_UpHasNoMemory ==
    /\ frrTotalErrorCount = 0
    /\ \A c \in Callers :
          /\ InCollect(c) /\ caller[c].pc # "state" => caller[c].errCount = 0
          /\ caller[c].pc \in {"spawn", "close", "drain"} =>
                Len(caller[c].errCh) = Cardinality(Signalled(c))
    /\ \A c, d \in Callers :
          /\ Returned(c) /\ Returned(d)
          /\ CollectorsOf(c) = CollectorsOf(d)
          /\ FailedTasks(c) = FailedTasks(d)
          => /\ ValuesOf(c, frrUp, "") = ValuesOf(d, frrUp, "")
             /\ caller[c].errCount = caller[d].errCount

\* The first and the second call of the process, both over two collectors
\* of which the first failed, have both returned with frr_up 1.
C17_Witness ==
    \E c, d \in Callers :
        /\ Returned(c) /\ Returned(d)
        /\ caller[c].k = 1 /\ caller[d].k = 2
        /\ Len(CollectorsOf(c)) = 2
        /\ FailedTasks(c) = {1} /\ FailedTasks(d) = {1}
        /\ ValuesOf(c, frrUp, "") = {1} /\ ValuesOf(d, frrUp, "") = {1}


\* C20: frrTotalScrapeCount belongs to the package, not to an Exporters
\* value.  With calls made one at a time on two exporters, the
\* frr_scrapes_total sample of a call carries the number of Collect calls
\* begun so far on either exporter, so a call on one exporter raises what the
\* next call on the other reports; the counter changes only at the increment
\* of line 74, by one: NewExporter and Describe leave it as it is.
C20_CounterIsShared ==
    /\ [](\A c \in Callers :
            ScrapesEmitted(c) =>
                /\ ValuesOf(c, frrScrapesTotal, "") = {caller[c].k}
                /\ \A d \in Callers \ {c} :
                      ScrapesEmitted(d) /\ caller[d].k < caller[c].k =>
                          \A v \in ValuesOf(d, frrScrapesTotal, "") :
                              v < caller[c].k)
    /\ [][frrTotalScrapeCount' # frrTotalScrapeCount =>
            /\ frrTotalScrapeCount' = frrTotalScrapeCount + 1
            /\ \E c \in Callers :
                  caller[c].pc = "store" /\ caller'[c].pc = "scrapes"]_vars

\* The first Collect call on "e2" comes after one on "e1" and reports 2.
C20_Witness ==
    \E c, d \in Callers :
        /\ Returned(c) /\ caller[c].e = "e1" /\ caller[c].k = 1
        /\ ValuesOf(c, frrScrapesTotal, "") = {1}
        /\ Returned(d) /\ caller[d].e = "e2" /\ caller[d].k = 2
        /\ ValuesOf(d, frrScrapesTotal, "") = {2}


\* Every collector of c's call has a goroutine, and each goroutine is either
\* stuck in its production call or done with both its samples in the sink.
OthersFinished(c) ==
    /\ Len(task[c]) = Len(CollectorsOf(c))
    /\ \A j \in 1..Len(task[c]) :
          \/ task[c][j].pc = "hung"
          \/ /\ task[c][j].pc = "done"
             /\ \E up \in {0, 1} :
                   CopiesIn(MustNewConstMetric(frrCollectorUp, up,
                                               task[c][j].collector.Name), sink[c]) = 1
             /\ CopiesIn(MustNewConstMetric(frrScrapeDuration, 0,
                                            task[c][j].collector.Name), sink[c]) = 1

\* C18: the collectors run side by side.  Collect is at wg.Wait() only with
\* a goroutine started for every collector, a goroutine is started whatever
\* the earlier ones are doing, and a collector stuck in its production call
\* keeps no other collector from finishing its own and sending its
\* frr_collector_up and duration samples.
C18_CollectorsRunInParallel ==
    \A c \in Scraper :
        /\ [](caller[c].pc = "spawn" =>
                 /\ caller[c].i <= Len(CollectorsOf(c)) => ENABLED Spawn(c)
                 /\ caller[c].i > Len(CollectorsOf(c)) =>
                       Len(task[c]) = Len(CollectorsOf(c)))
        /\ Hung(c) ~> OthersFinished(c)

\* The production calls of both collectors of a call are in progress.
C18_Witness ==
    \E c \in Scraper :
        /\ Len(CollectorsOf(c)) = 2
        /\ Len(task[c]) = 2
        /\ \A i \in 1..Len(task[c]) : task[c][i].pc = "produce"


\* How many times desc d occurs in what Describe sent to caller c.
Declared(c, d) == Cardinality({ n \in 1..Len(descs[c]) : descs[c][n] = d })

\* C19: Describe declares frr_scrape_errors_total, once; no Collect call
\* sends a sample of it, whatever the collectors report; and
\* frrTotalErrorCount is 0 after any Collect, Describe and NewExporter calls.
C19_ErrTotalNeverPopulated ==
    /\ frrTotalErrorCount = 0
    /\ \A c \in Scraper :
          /\ \A m \in BagToSet(sink[c]) : m.desc # frrScrapeErrTotal
          /\ caller[c].pc = "described" => Declared(c, frrScrapeErrTotal) = 1

\* The second Collect call has returned, both its collectors having failed.
C19_Witness ==
    \E c \in Scraper :
        /\ Returned(c)
        /\ caller[c].k = 2
        /\ Cardinality(FailedTasks(c)) = 2
        /\ NumSamples(c, frrUp, "") = 1
        /\ frrTotalErrorCount = 0

====
